---- MODULE Spec2Model ----
(***************************************************************************)
(* BotArticulos: the persisted article queue (state.json), its store       *)
(* (github_state.py), the listener's command handlers (bot_listener.py),   *)
(* the refill controller (main.py), the feed fetcher (feeds.py) and the    *)
(* selection gateway (selector.py).                                        *)
(*                                                                         *)
(* Conventions of the model                                                *)
(*   - a Python dict key that is absent is the field value "none";         *)
(*   - datetime.now().isoformat() is abstracted to the call site that      *)
(*     took the reading ("at_queue", "at_deliver", "at_read");             *)
(*   - a link is a number, a title the pair <<"T", link>>;                 *)
(*   - the content hash (sha) of the remote file is its content.           *)
(***************************************************************************)
EXTENDS Integers, Sequences, FiniteSets, TLC

(***************************************************************************)
(* Program constants                                                       *)
(***************************************************************************)
\* bot_listener.py:135 `sent[-200:]` (also :155 and main.py:102)
SENT_MAX == 200
\* main.py:17
QUEUE_TARGET == 5

(***************************************************************************)
(* Bounds of the model                                                     *)
(***************************************************************************)
\* links 1..MaxLink are the articles the feeds may publish
MaxLink == 2
\* transport failures (GitHub GET/PUT) injected in one behaviour
MaxFaults == 1
\* config["max_candidates_to_llm"] (config.json is not part of the sources)
MaxCandidates == 2
\* SpecConc: operations started in one behaviour, over both writers
MaxOps == 3

VARIABLES
    hasToken,    \* GITHUB_TOKEN and GITHUB_REPO are both set
    remote,      \* content of state.json in the GitHub repository
    local,       \* content of the local file state.json, or NoFile
    remoteHist,  \* history: every Sent Record appended along remote's lineage
    localHist,   \* history: every Sent Record appended along local's lineage
    listener,    \* "running" | "crashed" (an exception left run_listener)
    faults,      \* transport failures injected so far
    last,        \* what the last completed operation did
    arg,         \* the input of the call under study (the specifications of
                 \* single functions: SpecSave, SpecRefill, SpecFetch)
    res,         \* how far that call has come, and its result
    procs,       \* SpecConc: each writer's position in its handler
    ghost        \* SpecConc, history: links that entered the persisted queue,
                 \* and the links archived by completed confirm-reads

vars == <<hasToken, remote, local, remoteHist, localHist, listener, faults, last,
          arg, res, procs, ghost>>

\* what each specification leaves alone
callVars   == <<arg, res>>
concVars   == <<procs, ghost>>
serialVars == <<remoteHist, localHist, listener, faults, last>>

(***************************************************************************)
(* Data                                                                    *)
(***************************************************************************)
NoFile == [missing |-> TRUE]
Raise  == [raised |-> TRUE]
\* an entry without a link; also "no article" where a link is recorded
NoLink == 0 - 1

Title(link) == <<"T", link>>

\* (mutant: s[:n], the oldest entries kept)
LastN_keeps_oldest(s, n) == IF Len(s) <= n THEN s ELSE SubSeq(s, 1, n)

\* s[-n:]
LastN(s, n) == IF Len(s) <= n THEN s ELSE SubSeq(s, Len(s) - n + 1, Len(s))

\* s[:n]
FirstN(s, n) == IF Len(s) <= n THEN s ELSE SubSeq(s, 1, n)

Range(s) == {s[i] : i \in 1..Len(s)}

Links(s) == {s[i].link : i \in 1..Len(s)}

\* the Sent Records and Queued Articles a state file holds before the
\* behaviour starts: links disjoint from 1..MaxLink, except that the oldest
\* Sent Record is of an article the feeds still list (link 1)
OldSentLink(i) == IF i = 1 THEN 1 ELSE 1000 + i
OldSent(n) ==
    [i \in 1..n |-> [link |-> OldSentLink(i), title |-> Title(OldSentLink(i)),
                     date |-> "", sent_at |-> "at_deliver", read_at |-> "at_read"]]
OldQueue(n) ==
    [i \in 1..n |-> [link |-> 2000 + i, title |-> Title(2000 + i), published |-> "",
                     queued_at |-> "at_queue", sent_at |-> "none"]]

(***************************************************************************)
(* github_state.py                                                         *)
(***************************************************************************)
\* load_state(): the state it returns, or Raise; `getOk`: _get_file_meta
\* succeeded.  `src` names the store that was read.
load_state(tok, rem, loc, getOk) ==
    IF ~tok
    THEN (IF loc = NoFile THEN Raise ELSE [state |-> loc, src |-> "local"])
    ELSE IF getOk
         THEN [state |-> rem, src |-> "remote"]
         ELSE (IF loc = NoFile THEN Raise ELSE [state |-> loc, src |-> "local"])

\* (mutant: the except branch only logs)
save_fallback_logs_only(rem, loc, state) == [remote |-> rem, local |-> loc, to |-> "local"]

\* the except branch of save_state: json.dump to the local file
save_fallback(rem, loc, state) == [remote |-> rem, local |-> state, to |-> "local"]

\* save_state(state): the two stores afterwards.  `metaOk`: _get_file_meta
\* succeeded and returned `sha`; `putOk`: the PUT met no transport error.  The
\* PUT is accepted only when `sha` is the hash of the current remote content.
save_state(tok, rem, loc, state, metaOk, sha, putOk) ==
    IF ~tok
    THEN [remote |-> rem, local |-> state, to |-> "local"]
    ELSE IF metaOk /\ putOk /\ sha = rem
         THEN [remote |-> state, local |-> loc, to |-> "remote"]
         ELSE save_fallback(rem, loc, state)

(***************************************************************************)
(* bot_listener.py: command handlers, as functions of the loaded state     *)
(***************************************************************************)
\* the Sent Record _handle_leido builds for the popped article
SentRecord(article) ==
    [link    |-> article.link,
     title   |-> article.title,
     date    |-> article.published,
     sent_at |-> IF article.sent_at = "none" THEN "at_read" ELSE article.sent_at,
     read_at |-> "at_read"]

\* (mutant: queue.pop() takes the newest article instead of the head)
_handle_leido_pops_last(state) ==
    IF state.queue = <<>>
    THEN [save |-> FALSE, state |-> state, reply |-> "nothing_pending",
          appended |-> <<>>]
    ELSE LET article == state.queue[Len(state.queue)]
             sent    == Append(state.sent, SentRecord(article))
         IN  [save |-> TRUE,
              state |-> [sent |-> LastN(sent, SENT_MAX),
                         queue |-> SubSeq(state.queue, 1, Len(state.queue) - 1)],
              reply |-> "read_ok",
              appended |-> <<SentRecord(article)>>]

_handle_leido(state) ==
    IF state.queue = <<>>
    THEN [save |-> FALSE, state |-> state, reply |-> "nothing_pending",
          appended |-> <<>>]
    ELSE LET article == Head(state.queue)
             sent    == Append(state.sent, SentRecord(article))
         IN  [save |-> TRUE,
              state |-> [sent |-> LastN(sent, SENT_MAX), queue |-> Tail(state.queue)],
              reply |-> "read_ok",
              appended |-> <<SentRecord(article)>>]

\* (mutant: the state is saved before the empty-queue check)
_handle_articulo_saves_on_empty(state) ==
    IF state.queue = <<>>
    THEN [save |-> TRUE, state |-> state, reply |-> "queue_empty",
          appended |-> <<>>, delivered |-> NoLink]
    ELSE LET article == [Head(state.queue) EXCEPT !.sent_at = "at_deliver"]
         IN  [save |-> TRUE,
              state |-> [sent |-> state.sent,
                         queue |-> <<article>> \o Tail(state.queue)],
              reply |-> "article",
              appended |-> <<>>,
              delivered |-> article.link]

\* (mutant: queue.pop(0), delivering takes the article off the queue)
_handle_articulo_pops(state) ==
    IF state.queue = <<>>
    THEN [save |-> FALSE, state |-> state, reply |-> "queue_empty",
          appended |-> <<>>, delivered |-> NoLink]
    ELSE LET article == [Head(state.queue) EXCEPT !.sent_at = "at_deliver"]
         IN  [save |-> TRUE,
              state |-> [sent |-> state.sent, queue |-> Tail(state.queue)],
              reply |-> "article",
              appended |-> <<>>,
              delivered |-> article.link]

\* (mutant: article = queue[-1], the newest article is the one delivered)
_handle_articulo_sends_newest(state) ==
    IF state.queue = <<>>
    THEN [save |-> FALSE, state |-> state, reply |-> "queue_empty",
          appended |-> <<>>, delivered |-> NoLink]
    ELSE LET n == Len(state.queue)
             article == [state.queue[n] EXCEPT !.sent_at = "at_deliver"]
         IN  [save |-> TRUE,
              state |-> [sent |-> state.sent,
                         queue |-> SubSeq(state.queue, 1, n - 1) \o <<article>>],
              reply |-> "article",
              appended |-> <<>>,
              delivered |-> article.link]

\* delivered: the link of the article handed to send_article
_handle_articulo(state) ==
    IF state.queue = <<>>
    THEN [save |-> FALSE, state |-> state, reply |-> "queue_empty",
          appended |-> <<>>, delivered |-> NoLink]
    ELSE LET article == [Head(state.queue) EXCEPT !.sent_at = "at_deliver"]
         IN  [save |-> TRUE,
              state |-> [sent |-> state.sent,
                         queue |-> <<article>> \o Tail(state.queue)],
              reply |-> "article",
              appended |-> <<>>,
              delivered |-> article.link]

(***************************************************************************)
(* feeds.py                                                                *)
(* A feed entry: link (NoLink: the entry has none), title, ts (what        *)
(* _parse_published gives, relative to the cutoff: "none" | "old" |        *)
(* "fresh"), words (of the cleaned summary), thin (len(summary) < 100),    *)
(* text (newspaper extracts a non-empty text from the page), fullWords     *)
(* (the words of that text).  A feed document is Failed (the request or    *)
(* the parse raised) or [entries |-> <<...>>].  Minutes are compared as    *)
(* words against minutes * words_per_minute.                               *)
(***************************************************************************)
Failed == [failed |-> TRUE]

\* the gate of lines 98-103: the estimate the filter of line 109 sees
_final_reading_words(e, cfg) ==
    IF /\ e.words < cfg.min_reading_minutes * cfg.words_per_minute
       /\ cfg.min_reading_minutes > 0
       /\ e.thin
       /\ e.text
    THEN e.fullWords
    ELSE e.words

\* (mutant: the test `link in sent_links` is missing)
_entry_included_ignores_seen(e, sent_links, cfg) ==
    LET reading == _final_reading_words(e, cfg)
    IN  /\ ~(e.link = NoLink)
        /\ ~(e.ts = "old")
        /\ ~(/\ reading > 0
             /\ \/ reading < cfg.min_reading_minutes * cfg.words_per_minute
                \/ reading > cfg.max_reading_minutes * cfg.words_per_minute)

\* (mutant: the filter lacks `reading_min > 0`, a zero estimate is out of range)
_entry_included_drops_zero_estimate(e, sent_links, cfg) ==
    LET reading == _final_reading_words(e, cfg)
    IN  /\ ~(e.link = NoLink \/ e.link \in sent_links)
        /\ ~(e.ts = "old")
        /\ ~(\/ reading < cfg.min_reading_minutes * cfg.words_per_minute
             \/ reading > cfg.max_reading_minutes * cfg.words_per_minute)

\* whether the loop body of _fetch_one_feed appends the entry
_entry_included(e, sent_links, cfg) ==
    LET reading == _final_reading_words(e, cfg)
    IN  /\ ~(e.link = NoLink \/ e.link \in sent_links)
        /\ ~(e.ts = "old")
        /\ ~(/\ reading > 0
             /\ \/ reading < cfg.min_reading_minutes * cfg.words_per_minute
                \/ reading > cfg.max_reading_minutes * cfg.words_per_minute)

_candidate(e) ==
    [link |-> e.link, title |-> e.title,
     published |-> IF e.ts = "none" THEN "" ELSE e.ts]

RECURSIVE _fetch_entries(_, _, _, _)
_fetch_entries(entries, i, sent_links, cfg) ==
    IF i > Len(entries) THEN <<>>
    ELSE (IF _entry_included(entries[i], sent_links, cfg)
          THEN <<_candidate(entries[i])>> ELSE <<>>)
         \o _fetch_entries(entries, i + 1, sent_links, cfg)

_fetch_one_feed(doc, sent_links, cfg) ==
    IF doc = Failed THEN <<>>
    ELSE _fetch_entries(doc.entries, 1, sent_links, cfg)

\* fetch_all_feeds: `feeds` maps each configured url to its document, `order`
\* is the order in which as_completed yields the per-feed futures
RECURSIVE _extend_all(_, _, _, _, _)
_extend_all(feeds, order, i, sent_links, cfg) ==
    IF i > Len(order) THEN <<>>
    ELSE _fetch_one_feed(feeds[order[i]], sent_links, cfg)
         \o _extend_all(feeds, order, i + 1, sent_links, cfg)

\* (mutant: no try/except around the request, a failing feed aborts the fetch)
fetch_all_feeds_aborts_on_failure(feeds, order, sent_links, cfg) ==
    IF \E i \in 1..Len(order) : feeds[order[i]] = Failed
    THEN <<>>
    ELSE _extend_all(feeds, order, 1, sent_links, cfg)

\* sent_links is the set line 130 builds from state["sent"]
fetch_all_feeds(feeds, order, sent_links, cfg) ==
    _extend_all(feeds, order, 1, sent_links, cfg)

(***************************************************************************)
(* selector.py                                                             *)
(* An oracle response: [kind |-> "api_error"] (the call raised),           *)
(* [kind |-> "no_json"] (neither json.loads nor the embedded block parse), *)
(* [kind |-> "non_object"] (json.loads gives a value that is no dict), or  *)
(* [kind |-> "object", index |-> v] with v the value of its "index" key:   *)
(* [t |-> "absent"], [t |-> "int", v |-> n], [t |-> "bool", v |-> b],      *)
(* [t |-> "other"] (a string, a float, a list, ...).                       *)
(***************************************************************************)
None == [none |-> TRUE]

\* Python: bool is a subclass of int, True == 1 and False == 0
_as_int(idx) == IF idx.t = "bool" THEN (IF idx.v THEN 1 ELSE 0) ELSE idx.v

\* lines 70-73: the index is accepted
_index_valid(idx, pool) ==
    /\ idx.t \in {"int", "bool"}
    /\ _as_int(idx) >= 0
    /\ _as_int(idx) < Len(pool)

\* lines 75-78: the copy of the chosen candidate with the oracle's reason,
\* summary_es and matched_keywords (or their defaults)
_enrich(article) ==
    [link |-> article.link, title |-> article.title, published |-> article.published,
     reason |-> "of_oracle", summary_es |-> "of_oracle",
     matched_keywords |-> "of_oracle"]

\* [kind |-> "embedded", index |-> v]: the text is no JSON but holds a {...}
\* block that parses (lines 59-62), an object whose "index" is v
select_best_article(candidates, resp, max_candidates) ==
    IF candidates = <<>> THEN None
    ELSE LET pool == FirstN(candidates, max_candidates)
         IN  CASE resp.kind = "api_error"  -> None
               [] resp.kind = "no_json"    -> None
               [] resp.kind = "non_object" -> Raise
               [] OTHER -> IF _index_valid(resp.index, pool)
                           THEN _enrich(pool[_as_int(resp.index) + 1])
                           ELSE None

(***************************************************************************)
(* main.py                                                                 *)
(***************************************************************************)
\* the responses the oracle may give to one request
OracleResponses ==
    {[kind |-> "api_error"], [kind |-> "no_json"], [kind |-> "non_object"],
     [kind |-> "object", index |-> [t |-> "absent"]],
     [kind |-> "object", index |-> [t |-> "other"]],
     [kind |-> "object", index |-> [t |-> "bool", v |-> TRUE]]}
    \cup {[kind |-> "object", index |-> [t |-> "int", v |-> n]] :
            n \in (0 - 1)..MaxCandidates}

_queued(selected) ==
    [link |-> selected.link, title |-> selected.title,
     published |-> selected.published, queued_at |-> "at_queue", sent_at |-> "none"]

\* (mutant: list.remove semantics, only the first occurrence goes)
_without_first_only(cands, link) ==
    LET hits == {i \in 1..Len(cands) : cands[i].link = link}
        first == CHOOSE i \in hits : \A j \in hits : i <= j
    IN  IF hits = {} THEN cands
        ELSE SubSeq(cands, 1, first - 1) \o SubSeq(cands, first + 1, Len(cands))

\* (mutant: the selected article stays among the remaining candidates)
_without_nothing(cands, link) == cands

_without(cands, link) == SelectSeq(cands, LAMBDA c : c.link # link)

\* one oracle invocation as the loop sees it: the links of the pool it offered
\* (the first MaxCandidates of the remaining candidates) and what came back
_call(remaining_candidates, selected) ==
    LET pool == FirstN(remaining_candidates, MaxCandidates)
    IN  [offered  |-> [i \in 1..Len(pool) |-> pool[i].link],
         selected |-> IF selected = Raise \/ selected = None THEN NoLink
                      ELSE selected.link,
         raised   |-> selected = Raise]

\* (mutant: queue.insert(0, ...), the selected article goes to the head)
RECURSIVE _fill_loop_prepends(_, _, _, _, _)
_fill_loop_prepends(queue, remaining_candidates, added, slots, calls) ==
    IF ~(added < slots /\ remaining_candidates # <<>>)
    THEN {[queue |-> queue, added |-> added, raised |-> FALSE, calls |-> calls]}
    ELSE UNION {
           IF selected = Raise
           THEN {[queue |-> queue, added |-> added, raised |-> TRUE,
                  calls |-> Append(calls, _call(remaining_candidates, selected))]}
           ELSE IF selected = None
           THEN {[queue |-> queue, added |-> added, raised |-> FALSE,
                  calls |-> Append(calls, _call(remaining_candidates, selected))]}
           ELSE _fill_loop_prepends(<<_queued(selected)>> \o queue,
                           _without(remaining_candidates, selected.link),
                           added + 1, slots,
                           Append(calls, _call(remaining_candidates, selected)))
           : selected \in {select_best_article(remaining_candidates, r, MaxCandidates) :
                             r \in OracleResponses} }

\* (mutant: `continue` instead of `break`: after a no-selection the loop drops
\* the first candidate and asks again)
RECURSIVE _fill_loop_retries(_, _, _, _, _)
_fill_loop_retries(queue, remaining_candidates, added, slots, calls) ==
    IF ~(added < slots /\ remaining_candidates # <<>>)
    THEN {[queue |-> queue, added |-> added, raised |-> FALSE, calls |-> calls]}
    ELSE UNION {
           IF selected = Raise
           THEN {[queue |-> queue, added |-> added, raised |-> TRUE,
                  calls |-> Append(calls, _call(remaining_candidates, selected))]}
           ELSE IF selected = None
           THEN _fill_loop_retries(queue, Tail(remaining_candidates), added, slots,
                           Append(calls, _call(remaining_candidates, selected)))
           ELSE _fill_loop_retries(Append(queue, _queued(selected)),
                           _without(remaining_candidates, selected.link),
                           added + 1, slots,
                           Append(calls, _call(remaining_candidates, selected)))
           : selected \in {select_best_article(remaining_candidates, r, MaxCandidates) :
                             r \in OracleResponses} }

\* the while loop of refill_queue (lines 60-80), for every sequence of oracle
\* responses: the set of ways it can end.  calls: the oracle invocations made.
RECURSIVE _fill_loop(_, _, _, _, _)
_fill_loop(queue, remaining_candidates, added, slots, calls) ==
    IF ~(added < slots /\ remaining_candidates # <<>>)
    THEN {[queue |-> queue, added |-> added, raised |-> FALSE, calls |-> calls]}
    ELSE UNION {
           IF selected = Raise
           THEN {[queue |-> queue, added |-> added, raised |-> TRUE,
                  calls |-> Append(calls, _call(remaining_candidates, selected))]}
           ELSE IF selected = None
           THEN {[queue |-> queue, added |-> added, raised |-> FALSE,
                  calls |-> Append(calls, _call(remaining_candidates, selected))]}
           ELSE _fill_loop(Append(queue, _queued(selected)),
                           _without(remaining_candidates, selected.link),
                           added + 1, slots,
                           Append(calls, _call(remaining_candidates, selected)))
           : selected \in {select_best_article(remaining_candidates, r, MaxCandidates) :
                             r \in OracleResponses} }

\* (mutant: slots = QUEUE_TARGET, the queue's length is not subtracted)
refill_queue_ignores_queue_length(state, worlds, cfg) ==
    LET seen_links == Links(state.sent) \cup Links(state.queue)
        fetched == {fetch_all_feeds(w.feeds, w.order, seen_links, cfg) : w \in worlds}
    IN  UNION {
          IF candidates = <<>>
          THEN {[queue |-> state.queue, added |-> 0, raised |-> FALSE,
                 calls |-> <<>>, candidates |-> <<>>, sent |-> state.sent]}
          ELSE {[queue |-> o.queue, added |-> o.added, raised |-> o.raised,
                 calls |-> o.calls, candidates |-> candidates, sent |-> state.sent] :
                  o \in _fill_loop(state.queue, candidates, 0, QUEUE_TARGET, <<>>)}
          : candidates \in fetched }

\* (mutant: state["queue"] = [] before the loop, the queue is rebuilt)
refill_queue_rebuilds_queue(state, worlds, cfg) ==
    LET slots == QUEUE_TARGET - Len(state.queue) IN
    IF slots <= 0
    THEN {[queue |-> state.queue, added |-> 0, raised |-> FALSE, calls |-> <<>>,
           candidates |-> <<>>, sent |-> state.sent]}
    ELSE LET seen_links == Links(state.sent) \cup Links(state.queue)
             fetched == {fetch_all_feeds(w.feeds, w.order, seen_links, cfg) :
                           w \in worlds}
         IN  UNION {
               IF candidates = <<>>
               THEN {[queue |-> state.queue, added |-> 0, raised |-> FALSE,
                      calls |-> <<>>, candidates |-> <<>>, sent |-> state.sent]}
               ELSE {[queue |-> o.queue, added |-> o.added, raised |-> o.raised,
                      calls |-> o.calls, candidates |-> candidates,
                      sent |-> state.sent] :
                       o \in _fill_loop(<<>>, candidates, 0, slots, <<>>)}
               : candidates \in fetched }

\* refill_queue(config, state), for every world in `worlds` (a world: what the
\* feeds serve and the order their futures complete in) and every sequence of
\* oracle responses: the outcomes [queue, added, raised, calls, candidates,
\* sent]; added is the value returned, queue and sent are what the call leaves
\* in the state it was given
refill_queue(state, worlds, cfg) ==
    LET slots == QUEUE_TARGET - Len(state.queue) IN
    IF slots <= 0
    THEN {[queue |-> state.queue, added |-> 0, raised |-> FALSE, calls |-> <<>>,
           candidates |-> <<>>, sent |-> state.sent]}
    ELSE LET seen_links == Links(state.sent) \cup Links(state.queue)
             \* state_for_fetch lists exactly seen_links as its "sent"
             fetched == {fetch_all_feeds(w.feeds, w.order, seen_links, cfg) :
                           w \in worlds}
         IN  UNION {
               IF candidates = <<>>
               THEN {[queue |-> state.queue, added |-> 0, raised |-> FALSE,
                      calls |-> <<>>, candidates |-> <<>>, sent |-> state.sent]}
               ELSE {[queue |-> o.queue, added |-> o.added, raised |-> o.raised,
                      calls |-> o.calls, candidates |-> candidates,
                      sent |-> state.sent] :
                       o \in _fill_loop(state.queue, candidates, 0, slots, <<>>)}
               : candidates \in fetched }

(***************************************************************************)
(* Handlers that refill (bot_listener.py _handle_recargar, main.py main)   *)
(***************************************************************************)
\* _handle_recargar after load: one result per outcome of refill_queue
_handle_recargar(state, worlds, cfg) ==
    {[save |-> ~o.raised, raised |-> o.raised,
      state |-> [sent |-> LastN(o.sent, SENT_MAX), queue |-> o.queue],
      reply |-> IF o.raised THEN "none"
                ELSE IF o.added > 0 THEN "refilled" ELSE "nothing_new",
      added |-> o.added, calls |-> o.calls, candidates |-> o.candidates,
      appended |-> <<>>] :
        o \in refill_queue(state, worlds, cfg)}

\* main() after load_json: refill, notify when nothing is queued, truncate, save
main(state, worlds, cfg) ==
    {[save |-> ~o.raised, raised |-> o.raised,
      state |-> [sent |-> LastN(o.sent, SENT_MAX), queue |-> o.queue],
      reply |-> IF o.raised THEN "none"
                ELSE IF o.added = 0 /\ o.queue = <<>> THEN "no_articles" ELSE "none",
      added |-> o.added, calls |-> o.calls, candidates |-> o.candidates,
      appended |-> <<>>] :
        o \in refill_queue(state, worlds, cfg)}

(***************************************************************************)
(* The environment of the serial specification                             *)
(***************************************************************************)
\* config.json (not part of the sources): no reading-time filter
SpecCfg == [min_reading_minutes |-> 0, max_reading_minutes |-> 60,
            words_per_minute |-> 200]

FeedUrls == {"feedA", "feedB"}

Orders == {o \in [1..Cardinality(FeedUrls) -> FeedUrls] :
             \A i, j \in DOMAIN o : i # j => o[i] # o[j]}

SeqsUpTo(S, n) == UNION {[1..k -> S] : k \in 0..n}

\* a feed entry for link l with no timestamp and an empty summary
SpecEntry(l) ==
    [link |-> l, title |-> Title(l), ts |-> "none", words |-> 0, thin |-> TRUE,
     text |-> FALSE, fullWords |-> 0]

\* the entries for the links of S, by ascending link from l on
RECURSIVE SpecEntries(_, _)
SpecEntries(S, l) ==
    IF l > MaxLink THEN <<>>
    ELSE (IF l \in S THEN <<SpecEntry(l)>> ELSE <<>>) \o SpecEntries(S, l + 1)

\* what a feed may serve: nothing (it fails), or any of the links 1..MaxLink
SpecDocs == {Failed} \cup {[entries |-> SpecEntries(S, 1)] : S \in SUBSET (1..MaxLink)}

SpecFeeds == [FeedUrls -> SpecDocs]

SpecWorlds == {[feeds |-> f, order |-> o] : f \in SpecFeeds, o \in Orders}

\* the outcomes of a remote call: it may fail while the fault budget lasts
Flags == IF hasToken /\ faults < MaxFaults THEN BOOLEAN ELSE {TRUE}

Cost(ok) == IF ok THEN 0 ELSE 1

InitStates == {[sent |-> OldSent(n), queue |-> <<>>] : n \in {0, SENT_MAX}}

\* again: a deliver found its article already marked as sent
NoOp == [op |-> "init", src |-> "none", to |-> "none",
         reply |-> "none", added |-> 0, raised |-> FALSE, dup |-> FALSE,
         delivered |-> NoLink, again |-> FALSE]

\* the head of the loaded queue carries sent_at: it was delivered before
Redelivery(op, st) ==
    op = "articulo" /\ st.queue # <<>> /\ Head(st.queue).sent_at # "none"

Init ==
    /\ hasToken \in BOOLEAN
    /\ \E s \in InitStates :
         /\ hasToken => Len(s.sent) = SENT_MAX
         /\ remote = (IF hasToken THEN s ELSE NoFile)
         /\ remoteHist = (IF hasToken THEN s.sent ELSE <<>>)
         /\ local = (IF hasToken THEN NoFile ELSE s)
         /\ localHist = (IF local = NoFile THEN <<>> ELSE s.sent)
    /\ listener = "running"
    /\ faults = 0
    /\ last = NoOp
    /\ arg = None /\ res = None /\ procs = None /\ ghost = None

\* the handler runs to its end on the loaded state `ld` with result `h`
Finish(op, ld, ldHist, h, cost, tok) ==
    IF h.raised
    THEN /\ last' = [NoOp EXCEPT !.op = op, !.raised = TRUE]
         /\ faults' = faults + cost
         /\ UNCHANGED <<remote, local, remoteHist, localHist>>
    ELSE IF ~h.save
    THEN /\ last' = [NoOp EXCEPT !.op = op, !.src = ld.src, !.reply = h.reply,
                                 !.added = h.added, !.dup = h.dup,
                                 !.delivered = h.delivered,
                                 !.again = Redelivery(op, ld.state)]
         /\ faults' = faults + cost
         /\ UNCHANGED <<remote, local, remoteHist, localHist>>
    ELSE \E metaOk \in Flags, putOk \in Flags :
           /\ (~metaOk) => putOk
           /\ cost + Cost(metaOk) + Cost(putOk) <= MaxFaults - faults
           /\ LET sv == save_state(tok, remote, local, h.state, metaOk, remote, putOk)
                  hist == ldHist \o h.appended
              IN  /\ remote' = sv.remote
                  /\ local' = sv.local
                  /\ remoteHist' = (IF sv.to = "remote" THEN hist ELSE remoteHist)
                  /\ localHist' = (IF sv.to = "local" THEN hist ELSE localHist)
                  /\ last' = [op |-> op, src |-> ld.src, to |-> sv.to,
                              reply |-> h.reply, added |-> h.added,
                              raised |-> FALSE, dup |-> h.dup,
                              delivered |-> h.delivered,
                              again |-> Redelivery(op, ld.state)]
                  /\ faults' = faults + cost + Cost(metaOk) + Cost(putOk)

\* the result of a handler that cannot raise and does not refill
Plain(h) == [save |-> h.save, state |-> h.state, reply |-> h.reply,
             appended |-> h.appended, raised |-> FALSE, added |-> 0, dup |-> FALSE,
             delivered |-> IF "delivered" \in DOMAIN h THEN h.delivered ELSE NoLink]

\* what the serial specification observes of a refilling handler's result
\* (dup: the fetched candidates held some link more than once)
Brief(h) == [save |-> h.save, state |-> h.state, reply |-> h.reply,
             appended |-> h.appended, raised |-> h.raised, added |-> h.added,
             dup |-> Cardinality(Links(h.candidates)) < Len(h.candidates),
             delivered |-> NoLink]

\* the results of handler `op` on the loaded state
HandlerResults(op, st) ==
    CASE op = "leido"    -> {Plain(_handle_leido(st))}
      [] op = "articulo" -> {Plain(_handle_articulo(st))}
      [] op = "recargar" -> {Brief(h) : h \in _handle_recargar(st, SpecWorlds, SpecCfg)}
      [] OTHER           -> {Brief(h) : h \in main(st, SpecWorlds, SpecCfg)}

\* one command of the listener, from load_state to the reply
Command(op) ==
    \E getOk \in Flags :
      LET ld == load_state(hasToken, remote, local, getOk) IN
      IF ld = Raise
      THEN /\ listener' = "crashed"
           /\ last' = [NoOp EXCEPT !.op = op, !.raised = TRUE]
           /\ faults' = faults + Cost(getOk)
           /\ UNCHANGED <<remote, local, remoteHist, localHist>>
      ELSE \E h \in HandlerResults(op, ld.state) :
             /\ Finish(op, ld, IF ld.src = "remote" THEN remoteHist ELSE localHist,
                       h, Cost(getOk), hasToken)
             /\ listener' = (IF h.raised THEN "crashed" ELSE "running")

\* /leido, or the button "leido"
Leido ==
    /\ listener = "running"
    /\ UNCHANGED <<hasToken, callVars, concVars>>
    /\ Command("leido")

\* /articulo, /siguiente, or the button "articulo"
Articulo ==
    /\ listener = "running"
    /\ UNCHANGED <<hasToken, callVars, concVars>>
    /\ Command("articulo")

\* /recargar, for every feed content, completion order and oracle
Recargar ==
    /\ listener = "running"
    /\ UNCHANGED <<hasToken, callVars, concVars>>
    /\ Command("recargar")

\* python main.py: the scheduled refill, on the local file (load_json, save_json).
\* With a token the listener keeps its state in the repository and main() runs
\* on another checkout, whose file the listener never reads: it is left out.
CronMain ==
    /\ ~hasToken
    /\ UNCHANGED <<hasToken, listener, callVars, concVars>>
    /\ IF local = NoFile
       THEN /\ last' = [NoOp EXCEPT !.op = "main", !.raised = TRUE]
            /\ UNCHANGED <<remote, local, remoteHist, localHist, faults>>
       ELSE \E h \in HandlerResults("main", local) :
              Finish("main", [state |-> local, src |-> "local"], localHist, h, 0, FALSE)

Next == Leido \/ Articulo \/ Recargar \/ CronMain

Spec == Init /\ [][Next]_vars

(***************************************************************************)
(* Properties of the serial specification                                  *)
(***************************************************************************)
\* the store a name ("remote" | "local") stands for
StoreOf(name, rem, loc) == IF name = "remote" THEN rem ELSE loc

Stores == {st \in {remote, local} : st # NoFile}

\* C1: a confirm-read that finds the queue of the persisted state non-empty
\* leaves the queue without its head and otherwise as it was, and the persisted
\* sent ends with exactly one new Sent Record, which carries the link and the
\* title of the removed article and has read_at set; the records before it are
\* the previous ones (less the oldest, when sent was full).
C1_LeidoPopsHead ==
    [][(last'.op = "leido" /\ last'.to # "none") =>
         LET ld  == StoreOf(last'.src, remote, local)
             sv  == StoreOf(last'.to, remote', local')
             rec == sv.sent[Len(sv.sent)]
         IN  /\ ld.queue # <<>>
             /\ sv.queue = Tail(ld.queue)
             /\ Len(sv.sent) >= 1
             /\ SubSeq(sv.sent, 1, Len(sv.sent) - 1) = LastN(ld.sent, SENT_MAX - 1)
             /\ rec.link = Head(ld.queue).link
             /\ rec.title = Head(ld.queue).title
             /\ rec.read_at = "at_read"
             /\ last'.reply = "read_ok"]_vars

\* C1 witness: a confirm-read archived the head of a queue that held further
\* articles behind it
C1_Witness ==
    /\ last.op = "leido"
    /\ last.to # "none"
    /\ Len(StoreOf(last.to, remote, local).queue) >= 1
    /\ Len(StoreOf(last.to, remote, local).sent) >= 1

\* C6: every persisted sent has at most 200 entries and is the tail of the
\* Sent Records appended along its lineage, in append order: what was evicted
\* is the oldest.
C6_SentBounded ==
    /\ remote # NoFile =>
         /\ Len(remote.sent) <= SENT_MAX
         /\ remote.sent = SubSeq(remoteHist, Len(remoteHist) - Len(remote.sent) + 1,
                                 Len(remoteHist))
         /\ Len(remoteHist) > SENT_MAX => Len(remote.sent) = SENT_MAX
    /\ local # NoFile =>
         /\ Len(local.sent) <= SENT_MAX
         /\ local.sent = SubSeq(localHist, Len(localHist) - Len(local.sent) + 1,
                                Len(localHist))
         /\ Len(localHist) > SENT_MAX => Len(local.sent) = SENT_MAX

\* C6 witness: a confirm-read appended to a full sent, so an entry was evicted
C6_Witness ==
    /\ last.op = "leido"
    /\ last.to # "none"
    /\ Len(IF last.to = "remote" THEN remoteHist ELSE localHist) > SENT_MAX

\* C9: in every persisted state no link occurs twice in sent and queue combined
C9_LinksUnique ==
    \A st \in Stores :
        Cardinality(Links(st.sent) \cup Links(st.queue)) = Len(st.sent) + Len(st.queue)

\* C9 witness: a refill whose fetched candidates listed a link twice appended
\* articles to a state that already held Sent Records
C9_Witness ==
    /\ last.op \in {"recargar", "main"}
    /\ last.added >= 1
    /\ last.dup
    /\ last.to # "none"
    /\ Len(StoreOf(last.to, remote, local).sent) >= 1

\* C15: a deliver or a confirm-read that finds the queue of the state it
\* loaded empty saves nothing, leaves both files as they are, and answers
\* with the queue-empty notice (deliver) or the nothing-pending notice
\* (confirm-read)
C15_EmptyQueueNoOp ==
    [][(/\ last'.op \in {"leido", "articulo"}
        /\ last'.src # "none"
        /\ StoreOf(last'.src, remote, local).queue = <<>>)
       => /\ last'.to = "none"
          /\ remote' = remote
          /\ local' = local
          /\ last'.reply = (IF last'.op = "articulo" THEN "queue_empty"
                            ELSE "nothing_pending")]_vars

\* C15 witness: a confirm-read found nothing pending on a queue that an
\* earlier confirm-read had emptied
C15_Witness ==
    /\ last.op = "leido"
    /\ last.reply = "nothing_pending"
    /\ LET st == StoreOf(last.src, remote, local)
       IN  /\ st.queue = <<>>
           /\ st.sent # <<>>
           /\ st.sent[Len(st.sent)].link \in 1..MaxLink

Lineage(hist, st) ==
    [i \in 1..Len(hist) |-> hist[i].link] \o [i \in 1..Len(st.queue) |-> st.queue[i].link]

IsPrefix(a, b) == Len(a) <= Len(b) /\ SubSeq(b, 1, Len(a)) = a

\* C21: every operation that saves keeps the links archived and queued so far
\* in their order and adds new ones only at the end; it archives at most one
\* article, the head of the queue it loaded, at the end of sent; and a deliver
\* sends the oldest article not yet archived
C21_InsertionOrder ==
    [][(last'.src # "none" /\ last'.to # "none") =>
         LET ld    == StoreOf(last'.src, remote, local)
             ldH   == StoreOf(last'.src, remoteHist, localHist)
             sv    == StoreOf(last'.to, remote', local')
             svH   == StoreOf(last'.to, remoteHist', localHist')
             lin   == Lineage(ldH, ld)
         IN  /\ IsPrefix(lin, Lineage(svH, sv))
             /\ Len(svH) - Len(ldH) \in {0, 1}
             /\ Len(svH) > Len(ldH) =>
                  /\ ld.queue # <<>>
                  /\ sv.sent[Len(sv.sent)].link = Head(ld.queue).link
                  /\ sv.queue = Tail(ld.queue)
             /\ last'.delivered # NoLink =>
                  /\ Len(lin) > Len(ldH)
                  /\ last'.delivered = lin[Len(ldH) + 1]]_vars

\* C21 witness: a confirm-read archived the second of two articles that a
\* refill had queued, after the first, the second having been delivered
C21_Witness ==
    /\ last.op = "leido"
    /\ last.to # "none"
    /\ LET st == StoreOf(last.to, remote, local)
       IN  /\ Len(st.sent) = 2
           /\ st.sent[1].link # st.sent[2].link
           /\ st.sent[2].sent_at = "at_deliver"
           /\ st.queue = <<>>

\* C22 (the claim): every Sent Record is of an article that a deliver had
\* marked with sent_at before the confirm-read archived it
C22_ArchivedAfterDelivery ==
    \A st \in Stores : \A i \in 1..Len(st.sent) : st.sent[i].sent_at # "at_read"

\* C20 (the claim): whatever external call fails while a command is handled,
\* the polling loop of the listener is still running afterwards
C20_ListenerKeepsRunning == listener = "running"

(***************************************************************************)
(* SpecSave: one save_state call on any state, a writer that may change    *)
(* the remote file between the call's _get_file_meta and its PUT, and the  *)
(* load_state call that follows.                                           *)
(*   arg: [state]   res: [pc, sha, to, why, loaded]                        *)
(***************************************************************************)
\* the states handed to save_state, and found in the stores: sent short, full,
\* and longer than SENT_MAX (a file written by hand or by another version)
SaveStates ==
    {[sent |-> OldSent(n), queue |-> OldQueue(q)] :
        n \in {0, SENT_MAX, SENT_MAX + 1}, q \in {0, 1}}

StoreStates == {[sent |-> OldSent(n), queue |-> OldQueue(1)] : n \in {0, 1}}

InitSave ==
    /\ hasToken \in BOOLEAN
    /\ remote \in (IF hasToken THEN StoreStates ELSE {NoFile})
    /\ local \in StoreStates \cup {NoFile}
    /\ arg \in {[state |-> st] : st \in SaveStates}
    /\ res = [pc |-> "start", sha |-> None, to |-> "none", why |-> "none",
              loaded |-> None]
    /\ remoteHist = <<>> /\ localHist = <<>> /\ listener = "running"
    /\ faults = 0 /\ last = NoOp /\ procs = None /\ ghost = None

\* save_state up to the return of _get_file_meta (lines 57-63)
SaveMeta ==
    /\ res.pc = "start"
    /\ UNCHANGED <<hasToken, arg, serialVars, concVars>>
    /\ \E metaOk \in (IF hasToken THEN BOOLEAN ELSE {TRUE}) :
         IF hasToken /\ metaOk
         THEN /\ res' = [res EXCEPT !.pc = "put", !.sha = remote]
              /\ UNCHANGED <<remote, local>>
         ELSE LET sv == save_state(hasToken, remote, local, arg.state, metaOk, None, TRUE)
              IN  /\ remote' = sv.remote
                  /\ local' = sv.local
                  /\ res' = [res EXCEPT !.pc = "saved", !.to = sv.to,
                                        !.why = IF hasToken THEN "meta_failed"
                                                ELSE "no_token"]

\* another writer's PUT lands between this call's GET and its PUT
OtherWriter ==
    /\ res.pc = "put"
    /\ remote = res.sha
    /\ UNCHANGED <<hasToken, local, arg, res, serialVars, concVars>>
    /\ \E st \in StoreStates : st # remote /\ remote' = st

\* save_state from the PUT on (lines 64-83)
SavePut ==
    /\ res.pc = "put"
    /\ UNCHANGED <<hasToken, arg, serialVars, concVars>>
    /\ \E putOk \in BOOLEAN :
         LET sv == save_state(hasToken, remote, local, arg.state, TRUE, res.sha, putOk)
         IN  /\ remote' = sv.remote
             /\ local' = sv.local
             /\ res' = [res EXCEPT !.pc = "saved", !.to = sv.to,
                                   !.why = IF sv.to = "remote" THEN "ok"
                                           ELSE IF ~putOk THEN "put_failed"
                                           ELSE "conflict"]

\* the next load_state, no writer in between
LoadAfterSave ==
    /\ res.pc = "saved"
    /\ UNCHANGED <<hasToken, remote, local, arg, serialVars, concVars>>
    /\ \E getOk \in (IF hasToken THEN BOOLEAN ELSE {TRUE}) :
         LET ld == load_state(hasToken, remote, local, getOk)
         IN  res' = [res EXCEPT !.pc = "loaded",
                                !.loaded = IF ld = Raise THEN Raise ELSE ld.state]

NextSave == SaveMeta \/ OtherWriter \/ SavePut \/ LoadAfterSave

SpecSave == InitSave /\ [][NextSave]_vars

\* C4 (the claim): the load_state that follows a returned save_state, with no
\* writer in between, returns the state that was saved
C4_LoadReturnsSaved == res.pc = "loaded" => res.loaded = arg.state

\* C5: when save_state has returned, the complete state it was given is the
\* content of the remote file or of the local file; after a failed remote write
\* (token read failed, conflict, transport error) it is the local file's
C5_SavedSomewhere ==
    res.pc \in {"saved", "loaded"} =>
        /\ remote = arg.state \/ local = arg.state
        /\ res.why \in {"meta_failed", "conflict", "put_failed"} => local = arg.state

\* C5 witness: the PUT was rejected as a conflict and the state is in the local file
C5_Witness == res.pc = "saved" /\ res.why = "conflict" /\ local = arg.state

\* C7 (the claim): the state save_state persists has sent equal to the last 200
\* entries of the sent it was given
C7_SaveTruncates ==
    res.pc = "saved" =>
        StoreOf(res.to, remote, local).sent = LastN(arg.state.sent, SENT_MAX)

(***************************************************************************)
(* SpecRefill: one refill_queue call, made by /recargar, on any state, feed *)
(* content, completion order and oracle.                                   *)
(*   arg: [state, world]   res: [pc], the outcome and the reply            *)
(***************************************************************************)
RefillStates ==
    {[sent |-> OldSent(n), queue |-> OldQueue(q)] :
        n \in {0, 1}, q \in 0..(QUEUE_TARGET + 1)}

InitRefill ==
    /\ arg \in {[state |-> st, world |-> w] : st \in RefillStates, w \in SpecWorlds}
    /\ res = [pc |-> "start"]
    /\ hasToken = FALSE /\ remote = NoFile /\ local = NoFile
    /\ remoteHist = <<>> /\ localHist = <<>> /\ listener = "running"
    /\ faults = 0 /\ last = NoOp /\ procs = None /\ ghost = None

RefillCall ==
    /\ res.pc = "start"
    /\ UNCHANGED <<hasToken, remote, local, arg, serialVars, concVars>>
    /\ \E h \in _handle_recargar(arg.state, {arg.world}, SpecCfg) :
         res' = [pc |-> "done", queue |-> h.state.queue, added |-> h.added,
                 raised |-> h.raised, calls |-> h.calls, candidates |-> h.candidates,
                 reply |-> h.reply, sent |-> h.state.sent]

NextRefill == RefillCall

SpecRefill == InitRefill /\ [][NextRefill]_vars

\* C8: refill_queue appends at most max(0, QUEUE_TARGET - len(queue_before))
\* articles; with QUEUE_TARGET or more queued it appends nothing and returns 0;
\* and the number it returns is the number it appended.
C8_RefillBound ==
    res.pc = "done" =>
        LET before   == arg.state.queue
            slots    == QUEUE_TARGET - Len(before)
            appended == Len(res.queue) - Len(before)
        IN  /\ appended >= 0
            /\ appended <= (IF slots > 0 THEN slots ELSE 0)
            /\ Len(before) >= QUEUE_TARGET =>
                 res.queue = before /\ res.added = 0 /\ ~res.raised
            /\ ~res.raised => res.added = appended

\* C8 witness: more distinct candidates than free slots, and every slot filled
C8_Witness ==
    /\ res.pc = "done"
    /\ ~res.raised
    /\ QUEUE_TARGET - Len(arg.state.queue) >= 1
    /\ Cardinality(Links(res.candidates)) > QUEUE_TARGET - Len(arg.state.queue)
    /\ res.added = QUEUE_TARGET - Len(arg.state.queue)

\* the oracle gave a valid selection on every invocation of this refill
AllSelectionsValid ==
    \A i \in 1..Len(res.calls) :
        res.calls[i].selected # NoLink /\ ~res.calls[i].raised

\* C14: when every oracle invocation gives a valid selection, refill_queue
\* returns min(slots, number of distinct links among the fetched candidates),
\* slots being QUEUE_TARGET - len(queue_before) (none when the queue is full),
\* and the queue is the previous queue followed by the selected articles in
\* the order of their selection, no link twice among them
C14_FillsInSelectionOrder ==
    (res.pc = "done" /\ AllSelectionsValid) =>
        LET before   == arg.state.queue
            free     == QUEUE_TARGET - Len(before)
            slots    == IF free > 0 THEN free ELSE 0
            distinct == Cardinality(Links(res.candidates))
            n        == Len(res.queue) - Len(before)
        IN  /\ res.added = (IF slots < distinct THEN slots ELSE distinct)
            /\ n = res.added
            /\ SubSeq(res.queue, 1, Len(before)) = before
            /\ Len(res.calls) = n
            /\ \A i \in 1..n :
                 res.queue[Len(before) + i].link = res.calls[i].selected
            /\ \A i, j \in 1..n :
                 i # j => res.queue[Len(before) + i].link # res.queue[Len(before) + j].link

\* C14 witness: two valid selections, the second-listed candidate chosen
\* first, appended behind articles that were already queued
C14_Witness ==
    /\ res.pc = "done"
    /\ AllSelectionsValid
    /\ Len(arg.state.queue) >= 1
    /\ res.added = 2
    /\ res.calls[1].selected = res.calls[1].offered[2]

\* the reply /recargar gives when the feeds yield no candidate at all
ReplyWhenNoCandidates ==
    LET dead == [feeds |-> [u \in FeedUrls |-> Failed],
                 order |-> CHOOSE o \in Orders : TRUE]
    IN  (CHOOSE h \in _handle_recargar([sent |-> <<>>, queue |-> <<>>], {dead}, SpecCfg) :
           TRUE).reply

\* the reply /articulo gives on an empty queue
ReplyWhenQueueEmpty == _handle_articulo([sent |-> <<>>, queue |-> <<>>]).reply

\* C18 (the claim): a forced refill that found candidates and ended because the
\* oracle gave no usable selection answers with a reply that is neither the
\* reply for "no candidates" nor the reply for "queue empty", and those two differ
C18_DistinctFailureReplies ==
    /\ ReplyWhenNoCandidates # ReplyWhenQueueEmpty
    /\ (/\ res.pc = "done"
        /\ res.candidates # <<>>
        /\ ~res.raised
        /\ res.added = 0
        /\ Len(res.calls) = 1)
       => res.reply \notin {ReplyWhenNoCandidates, ReplyWhenQueueEmpty}

\* C23: in one refill, an oracle call that comes back without a selection is
\* the last call of the refill; the queue then holds what it held plus the
\* selections of the calls before it, and their number is the value returned
C23_NoSelectionEndsLoop ==
    res.pc = "done" =>
        \A i \in 1..Len(res.calls) :
            (res.calls[i].selected = NoLink /\ ~res.calls[i].raised) =>
                /\ i = Len(res.calls)
                /\ ~res.raised
                /\ res.added = i - 1
                /\ Len(res.queue) = Len(arg.state.queue) + i - 1
                /\ \A k \in 1..(i - 1) :
                     res.queue[Len(arg.state.queue) + k].link = res.calls[k].selected

\* C23 witness: a refill with free slots whose first call selected and whose
\* second call, offered a candidate, came back without a selection
C23_Witness ==
    /\ res.pc = "done"
    /\ Len(res.calls) = 2
    /\ res.calls[1].selected # NoLink
    /\ res.calls[2].selected = NoLink /\ ~res.calls[2].raised
    /\ Len(res.calls[2].offered) >= 1
    /\ res.added = 1
    /\ res.added < QUEUE_TARGET - Len(arg.state.queue)

\* C24: a refill leaves the articles that were queued as the first articles of
\* the queue, unchanged and in their order, and leaves sent as it was
C24_AppendOnly ==
    res.pc = "done" =>
        /\ Len(res.queue) >= Len(arg.state.queue)
        /\ SubSeq(res.queue, 1, Len(arg.state.queue)) = arg.state.queue
        /\ res.sent = arg.state.sent

\* C24 witness: a refill appended to a queue that held articles, with a
\* record in sent
C24_Witness ==
    /\ res.pc = "done"
    /\ res.added >= 1
    /\ Len(arg.state.queue) >= 2
    /\ Len(res.queue) = Len(arg.state.queue) + res.added
    /\ arg.state.sent # <<>>

(***************************************************************************)
(* SpecLoop: one refill_queue call taken one pass of its while loop at a   *)
(* time, on any state, feed content and completion order; every pass draws *)
(* the oracle's response.  The call is sequential code: a pass that can    *)
(* run does run (weak fairness).                                           *)
(***************************************************************************)
InitLoop ==
    /\ arg \in {[state |-> st, world |-> w] : st \in RefillStates, w \in SpecWorlds}
    /\ res = [pc |-> "start"]
    /\ hasToken = FALSE /\ remote = NoFile /\ local = NoFile
    /\ remoteHist = <<>> /\ localHist = <<>> /\ listener = "running"
    /\ faults = 0 /\ last = NoOp /\ procs = None /\ ghost = None

\* the frame of the call: its local variables and where it is
Frame(pc, queue, candidates, remaining_candidates, added, slots, calls) ==
    [pc |-> pc, queue |-> queue, candidates |-> candidates,
     remaining_candidates |-> remaining_candidates, added |-> added,
     slots |-> slots, calls |-> calls]

\* lines 35-58: slots, seen_links, the fetch, the two early returns
LoopEnter ==
    /\ res.pc = "start"
    /\ UNCHANGED <<hasToken, remote, local, arg, serialVars, concVars>>
    /\ LET queue == arg.state.queue
           slots == QUEUE_TARGET - Len(queue)
           seen_links == Links(arg.state.sent) \cup Links(queue)
           candidates == fetch_all_feeds(arg.world.feeds, arg.world.order,
                                         seen_links, SpecCfg)
       IN  res' = IF slots <= 0
                  THEN Frame("returned", queue, <<>>, <<>>, 0, slots, <<>>)
                  ELSE IF candidates = <<>>
                  THEN Frame("returned", queue, <<>>, <<>>, 0, slots, <<>>)
                  ELSE Frame("loop", queue, candidates, candidates, 0, slots, <<>>)

\* lines 60-82: the loop test and one pass, or the return
LoopPass ==
    /\ res.pc = "loop"
    /\ UNCHANGED <<hasToken, remote, local, arg, serialVars, concVars>>
    /\ IF ~(res.added < res.slots /\ res.remaining_candidates # <<>>)
       THEN res' = [res EXCEPT !.pc = "returned"]
       ELSE \E r \in OracleResponses :
              LET selected == select_best_article(res.remaining_candidates, r,
                                                  MaxCandidates)
                  calls == Append(res.calls, _call(res.remaining_candidates, selected))
              IN  res' = IF selected = Raise
                         THEN [res EXCEPT !.pc = "raised", !.calls = calls]
                         ELSE IF selected = None
                         THEN [res EXCEPT !.pc = "returned", !.calls = calls]
                         ELSE [res EXCEPT
                                 !.queue = Append(res.queue, _queued(selected)),
                                 !.remaining_candidates =
                                     _without(res.remaining_candidates, selected.link),
                                 !.added = res.added + 1,
                                 !.calls = calls]

NextLoop == LoopEnter \/ LoopPass

SpecLoop == InitLoop /\ [][NextLoop]_vars /\ WF_vars(NextLoop)

Min(a, b) == IF a <= b THEN a ELSE b

\* every pass that does not end the loop appends one article and leaves fewer
\* remaining candidates, none of them with the link just selected
PassShrinks ==
    (res.pc = "loop" /\ res'.pc = "loop") =>
        /\ res'.added = res.added + 1
        /\ Len(res'.queue) = Len(res.queue) + 1
        /\ Len(res'.remaining_candidates) < Len(res.remaining_candidates)
        /\ res'.queue[Len(res'.queue)].link
             \notin Links(res'.remaining_candidates)

\* the oracle calls made so far are at most min(slots, number of candidates),
\* and no call was offered a link that an earlier call of this refill selected
CallsBounded ==
    res.pc \in {"loop", "returned", "raised"} =>
        /\ Len(res.calls) <= Min(IF res.slots > 0 THEN res.slots ELSE 0,
                                 Len(res.candidates))
        /\ \A i, j \in 1..Len(res.calls) :
             i < j => res.calls[i].selected \notin Range(res.calls[j].offered)

\* C25: every refill_queue call ends; until then each pass either ends the
\* loop or appends one article and shrinks the remaining candidates; the
\* oracle is called at most min(slots, number of candidates) times and is
\* never offered a link it selected earlier in the call
C25_RefillTerminates ==
    /\ <>(res.pc \in {"returned", "raised"})
    /\ []CallsBounded
    /\ [][PassShrinks]_vars

\* C25 witness: a call returned after two passes that each appended an
\* article, the second pass offered only what the first left
C25_Witness ==
    /\ res.pc = "returned"
    /\ Len(res.calls) >= 2
    /\ res.added = 2
    /\ Len(res.candidates) >= 2
    /\ res.calls[1].selected \notin Range(res.calls[2].offered)

(***************************************************************************)
(* SpecFetch: one fetch_all_feeds call; the per-feed futures complete one  *)
(* at a time, in any order.                                                *)
(*   arg: [feeds, seen, cfg]   res: [order, all_articles]                  *)
(***************************************************************************)
\* timestamp and reading-time shapes of an entry
EntryShapes ==
    {[ts |-> "none",  words |-> 0,    thin |-> TRUE,  text |-> FALSE, fullWords |-> 0],
     [ts |-> "fresh", words |-> 0,    thin |-> TRUE,  text |-> FALSE, fullWords |-> 0],
     [ts |-> "old",   words |-> 0,    thin |-> TRUE,  text |-> FALSE, fullWords |-> 0],
     [ts |-> "none",  words |-> 0,    thin |-> TRUE,  text |-> TRUE,  fullWords |-> 500],
     [ts |-> "none",  words |-> 50,   thin |-> TRUE,  text |-> TRUE,  fullWords |-> 1200],
     [ts |-> "none",  words |-> 50,   thin |-> TRUE,  text |-> TRUE,  fullWords |-> 0],
     [ts |-> "none",  words |-> 50,   thin |-> FALSE, text |-> TRUE,  fullWords |-> 500],
     [ts |-> "fresh", words |-> 500,  thin |-> FALSE, text |-> FALSE, fullWords |-> 0],
     [ts |-> "old",   words |-> 500,  thin |-> FALSE, text |-> FALSE, fullWords |-> 0],
     [ts |-> "none",  words |-> 1200, thin |-> FALSE, text |-> FALSE, fullWords |-> 0],
     [ts |-> "none",  words |-> 200,  thin |-> FALSE, text |-> FALSE, fullWords |-> 0],
     [ts |-> "none",  words |-> 1000, thin |-> FALSE, text |-> FALSE, fullWords |-> 0]}

FetchEntries ==
    {[link |-> l, title |-> Title(l), ts |-> sh.ts, words |-> sh.words,
      thin |-> sh.thin, text |-> sh.text, fullWords |-> sh.fullWords] :
        l \in {NoLink} \cup (1..MaxLink), sh \in EntryShapes}

\* a feed fails, lists plain entries, or lists one entry of any shape
FetchDocs == SpecDocs \cup {[entries |-> <<e>>] : e \in FetchEntries}

\* config.json: the reading-time filter off (min 0), and on (2 to 10 minutes)
FetchCfgs ==
    {SpecCfg,
     [min_reading_minutes |-> 2, max_reading_minutes |-> 10, words_per_minute |-> 100]}

InitFetch ==
    /\ arg \in {[feeds |-> f, seen |-> S, cfg |-> c] :
                  f \in [FeedUrls -> FetchDocs], S \in SUBSET (1..MaxLink),
                  c \in FetchCfgs}
    /\ res = [order |-> <<>>, all_articles |-> <<>>]
    /\ hasToken = FALSE /\ remote = NoFile /\ local = NoFile
    /\ remoteHist = <<>> /\ localHist = <<>> /\ listener = "running"
    /\ faults = 0 /\ last = NoOp /\ procs = None /\ ghost = None

\* as_completed yields the future of feed u: its articles extend all_articles
FeedDone ==
    /\ UNCHANGED <<hasToken, remote, local, arg, serialVars, concVars>>
    /\ \E u \in FeedUrls \ Range(res.order) :
         LET order == Append(res.order, u)
         IN  res' = [order |-> order,
                     all_articles |-> fetch_all_feeds(arg.feeds, order, arg.seen, arg.cfg)]

NextFetch == FeedDone

SpecFetch == InitFetch /\ [][NextFetch]_vars

\* C10: whatever the feeds serve and in whatever order they complete, no
\* article of the Fetcher's output has a link of the seen set
C10_NoSeenLink ==
    \A i \in 1..Len(res.all_articles) : res.all_articles[i].link \notin arg.seen

\* C10 witness: every feed is done, articles came out, and a feed listed an
\* entry with a seen link that passes the recency and reading-time filters
C10_Witness ==
    /\ Len(res.order) = Cardinality(FeedUrls)
    /\ res.all_articles # <<>>
    /\ arg.cfg.min_reading_minutes > 0
    /\ \E u \in FeedUrls :
         /\ arg.feeds[u] # Failed
         /\ \E i \in 1..Len(arg.feeds[u].entries) :
              LET e == arg.feeds[u].entries[i]
              IN  e.link \in arg.seen /\ e.ts = "fresh" /\ e.words = 500

(***************************************************************************)
(* SpecConc: two processes race on load -> mutate -> save, with no lock     *)
(* between them.  "listener" runs the command handlers.  "other" is, with  *)
(* a token, a second process running the same handlers on the repository's *)
(* file; without one, the scheduled main() on the same local state.json.   *)
(* A save through github_state is two steps, _get_file_meta and the PUT.   *)
(*   procs[p]: [pc, op, loaded, at, new, sha]                              *)
(*   ghost: [ops, writes, lastWrite, entered, archLog]                     *)
(***************************************************************************)
Writers == {"listener", "other"}

OpsOf(p) ==
    IF p = "listener" \/ hasToken THEN {"leido", "articulo", "recargar"} ELSE {"main"}

Idle == [pc |-> "idle", op |-> "none", loaded |-> None, at |-> 0, new |-> None,
         sha |-> None]

\* the store the next load reads
Persisted == IF hasToken THEN remote ELSE local

ConcStates ==
    {[sent |-> <<>>, queue |-> q] :
        q \in {<<>>, <<_queued(_candidate(SpecEntry(1)))>>}}

InitConc ==
    /\ hasToken \in BOOLEAN
    /\ \E s \in ConcStates :
         /\ remote = (IF hasToken THEN s ELSE NoFile)
         /\ local = (IF hasToken THEN NoFile ELSE s)
         /\ ghost = [ops |-> 0, writes |-> 0, lastWrite |-> None,
                     entered |-> Links(s.queue), archLog |-> <<>>]
    /\ procs = [p \in Writers |-> Idle]
    /\ remoteHist = <<>> /\ localHist = <<>> /\ listener = "running"
    /\ faults = 0 /\ last = NoOp /\ arg = None /\ res = None

\* process p loads the state and runs its handler up to the call that saves
ConcLoad(p) ==
    /\ procs[p].pc = "idle"
    /\ ghost.ops < MaxOps
    /\ UNCHANGED <<hasToken, remote, local, serialVars, callVars>>
    /\ ghost' = [ghost EXCEPT !.ops = @ + 1]
    /\ \E op \in OpsOf(p) :
         LET ld == IF op = "main" THEN [state |-> local, src |-> "local"]
                   ELSE load_state(hasToken, remote, local, TRUE)
         IN  \E h \in HandlerResults(op, ld.state) :
               procs' = [procs EXCEPT ![p] =
                          IF h.raised \/ ~h.save THEN Idle
                          ELSE [pc |-> IF hasToken THEN "meta" ELSE "put",
                                op |-> op, loaded |-> ld.state, at |-> ghost.writes,
                                new |-> h.state, sha |-> None]]

\* save_state of p reads the version token (line 63)
ConcMeta(p) ==
    /\ procs[p].pc = "meta"
    /\ UNCHANGED <<hasToken, remote, local, ghost, serialVars, callVars>>
    /\ procs' = [procs EXCEPT ![p].pc = "put", ![p].sha = remote]

\* p writes: the PUT of save_state (or its fallback), or save_json of main()
ConcPut(p) ==
    /\ procs[p].pc = "put"
    /\ UNCHANGED <<hasToken, serialVars, callVars>>
    /\ LET me == procs[p]
           sv == IF me.op = "main"
                 THEN [remote |-> remote, local |-> me.new, to |-> "local"]
                 ELSE save_state(hasToken, remote, local, me.new, TRUE, me.sha, TRUE)
           hit == sv.to = (IF hasToken THEN "remote" ELSE "local")
           after == IF hasToken THEN sv.remote ELSE sv.local
       IN  /\ remote' = sv.remote
           /\ local' = sv.local
           /\ procs' = [procs EXCEPT ![p] = Idle]
           /\ ghost' = [ghost EXCEPT
                !.writes = IF hit THEN @ + 1 ELSE @,
                !.lastWrite = IF hit THEN [by |-> p, base |-> me.loaded,
                                           n |-> ghost.writes + 1]
                              ELSE @,
                !.entered = @ \cup Links(after.queue),
                !.archLog = IF me.op = "leido"
                            THEN Append(@, Head(me.loaded.queue).link) ELSE @]

NextConc == \E p \in Writers : ConcLoad(p) \/ ConcMeta(p) \/ ConcPut(p)

SpecConc == InitConc /\ [][NextConc]_vars

\* C2 (the claim): with the remote store, when another writer that loaded the
\* same state has saved since this writer's load, this writer's save_state
\* leaves the remote file as the other writer wrote it
C2_ConflictDetected ==
    [][\A p \in Writers :
         (/\ hasToken
          /\ procs[p].pc = "put"
          /\ procs'[p].pc = "idle"
          /\ ghost.lastWrite # None
          /\ ghost.lastWrite.by # p
          /\ ghost.lastWrite.n > procs[p].at
          /\ ghost.lastWrite.base = procs[p].loaded
          /\ remote # procs[p].loaded)
         => remote' = remote]_vars

\* C3 (the claim): every link that entered the persisted queue is still queued
\* or has a Sent Record, and no link was archived by two confirm-reads
C3_ArchivedExactlyOnce ==
    \A l \in ghost.entered :
        /\ l \in Links(Persisted.queue) \cup Links(Persisted.sent)
        /\ Cardinality({i \in 1..Len(ghost.archLog) : ghost.archLog[i] = l}) <= 1

\* the entry passes the link, dedup and recency checks
PassesEarlyChecks(e) == e.link # NoLink /\ e.link \notin arg.seen /\ e.ts # "old"

\* the inclusion rule on the final estimate: zero is in; positive and below min
\* or above max is out; positive and within [min, max] is in
InclusionRule(e) ==
    LET est == _final_reading_words(e, arg.cfg)
        lo  == arg.cfg.min_reading_minutes * arg.cfg.words_per_minute
        hi  == arg.cfg.max_reading_minutes * arg.cfg.words_per_minute
    IN  IF est = 0 THEN TRUE
        ELSE IF est < lo \/ est > hi THEN FALSE
        ELSE TRUE

\* C13: the articles a feed contributes are exactly its entries that pass the
\* link, dedup and recency checks and whose final estimate is 0 or is positive
\* and within [min, max], in feed order; a positive estimate below min or above
\* max is never included, whatever min and max are
C13_ReadingTimeRule ==
    (Len(res.order) = 1 /\ arg.feeds[res.order[1]] # Failed) =>
        LET es   == arg.feeds[res.order[1]].entries
            kept == SelectSeq(es, LAMBDA e : PassesEarlyChecks(e) /\ InclusionRule(e))
        IN  /\ Len(res.all_articles) = Len(kept)
            /\ \A i \in 1..Len(kept) : res.all_articles[i].link = kept[i].link

\* C13 witness: with a positive min, an entry whose thin summary sent it to
\* full-text extraction, which gave a text of no words, is included
C13_Witness ==
    /\ Len(res.order) = 1
    /\ arg.cfg.min_reading_minutes > 0
    /\ arg.feeds[res.order[1]] # Failed
    /\ Len(arg.feeds[res.order[1]].entries) = 1
    /\ LET e == arg.feeds[res.order[1]].entries[1]
       IN  e.words = 50 /\ e.thin /\ e.text /\ e.fullWords = 0
    /\ Len(res.all_articles) = 1

\* the candidates of the feeds of `order` that did not fail, from the i-th on
RECURSIVE SurvivorsOutput(_, _)
SurvivorsOutput(order, i) ==
    IF i > Len(order) THEN <<>>
    ELSE _fetch_entries(arg.feeds[order[i]].entries, 1, arg.seen, arg.cfg)
         \o SurvivorsOutput(order, i + 1)

\* C19: whichever feeds fail and in whatever order the per-feed tasks complete,
\* the output is the candidates of the feeds that did not fail, in completion
\* order; a failing feed contributes nothing and stops nothing
C19_FailuresIsolated ==
    res.all_articles =
        SurvivorsOutput(SelectSeq(res.order, LAMBDA u : arg.feeds[u] # Failed), 1)

\* C19 witness: the feed that completed first failed, the one after it
\* contributed its candidates
C19_Witness ==
    /\ Len(res.order) = 2
    /\ arg.feeds[res.order[1]] = Failed
    /\ arg.feeds[res.order[2]] # Failed
    /\ res.all_articles # <<>>

(***************************************************************************)
(* SpecSelect: one select_best_article call on any candidate list and any  *)
(* oracle response.   arg: [candidates, resp, max_candidates]              *)
(*                    res: [pc, out]                                       *)
(***************************************************************************)
\* the values the "index" key of a response object may hold
IndexValues ==
    {[t |-> "absent"], [t |-> "other"], [t |-> "float", v |-> 1],
     [t |-> "bool", v |-> TRUE], [t |-> "bool", v |-> FALSE]}
    \cup {[t |-> "int", v |-> n] : n \in (0 - 1)..(MaxCandidates + 1)}

SelectResponses ==
    {[kind |-> "api_error"], [kind |-> "no_json"], [kind |-> "non_object"]}
    \cup {[kind |-> k, index |-> v] : k \in {"object", "embedded"}, v \in IndexValues}

\* candidate lists of up to MaxCandidates + 1 articles: one more than the pool
SelectCandidates ==
    {[i \in DOMAIN ls |-> _candidate(SpecEntry(ls[i]))] :
        ls \in SeqsUpTo(1..MaxLink, MaxCandidates + 1)}

InitSelect ==
    /\ arg \in {[candidates |-> c, resp |-> r, max_candidates |-> MaxCandidates] :
                  c \in SelectCandidates, r \in SelectResponses}
    /\ res = [pc |-> "start", out |-> None]
    /\ hasToken = FALSE /\ remote = NoFile /\ local = NoFile
    /\ remoteHist = <<>> /\ localHist = <<>> /\ listener = "running"
    /\ faults = 0 /\ last = NoOp /\ procs = None /\ ghost = None

SelectCall ==
    /\ res.pc = "start"
    /\ UNCHANGED <<hasToken, remote, local, arg, serialVars, concVars>>
    /\ res' = [pc |-> "done",
               out |-> select_best_article(arg.candidates, arg.resp,
                                           arg.max_candidates)]

NextSelect == SelectCall

SpecSelect == InitSelect /\ [][NextSelect]_vars

\* pool_size = min(max_candidates, number of candidates)
PoolSize ==
    IF Len(arg.candidates) < arg.max_candidates
    THEN Len(arg.candidates) ELSE arg.max_candidates

\* C11 (the claim): a response object whose index is absent, is no integer (a
\* boolean, a string, a fractional number) or is an integer outside
\* [0, pool_size) makes select_best_article return no-selection
C11_InvalidIndexNoSelection ==
    (/\ res.pc = "done"
     /\ arg.resp.kind \in {"object", "embedded"}
     /\ \/ arg.resp.index.t # "int"
        \/ arg.resp.index.v < 0
        \/ arg.resp.index.v >= PoolSize)
    => res.out = None

\* C12 (the claim): whatever the oracle call gives, select_best_article returns
\* no-selection or one of the first max_candidates candidates, enriched; it
\* does not raise
C12_NeverRaises ==
    res.pc = "done" =>
        \/ res.out = None
        \/ /\ res.out # Raise
           /\ \E i \in 1..PoolSize :
                /\ res.out.link = arg.candidates[i].link
                /\ res.out.title = arg.candidates[i].title
                /\ {"reason", "summary_es", "matched_keywords"} \subseteq DOMAIN res.out

(***************************************************************************)
(* SpecDispatch: run_listener handles one update of a getUpdates batch.   *)
(* The state file is the local one (no token), so no transport fault      *)
(* takes part; the update, its sender and the state on disk are drawn.    *)
(***************************************************************************)
ALLOWED_CHAT_ID == "owner"
ChatIds == {"owner", "stranger"}

_is_authorized(chat_id) == chat_id = ALLOWED_CHAT_ID

\* the data of a button press, and the first word of a text message ("" is a
\* message without text, "hola" a text that is no command)
CallbackData == {"leido", "cola", "articulo", "otro"}
Texts == {"/articulo", "/siguiente", "/leido", "/recargar", "/cola", "/estado",
          "/ayuda", "/start", "/help", "/otro", "hola", ""}
StartsWithSlash(text) == text \notin {"hola", ""}

Updates ==
    {[kind |-> "callback_query", chat_id |-> c, data |-> d] :
        c \in ChatIds, d \in CallbackData}
    \cup {[kind |-> "message", chat_id |-> c, data |-> t] :
        c \in ChatIds, t \in Texts}
    \cup {[kind |-> "other", chat_id |-> "owner", data |-> ""]}

DispatchStates ==
    {[sent |-> OldSent(n), queue |-> OldQueue(q)] : n \in {0, 1}, q \in 0..2}

\* what one handler does: the texts and articles it sends, the state file it
\* leaves, whether it raised
_handler(name, st) ==
    CASE name \in {"leido", "articulo", "recargar"} ->
           {[sends |-> IF h.raised THEN <<>> ELSE <<h.reply>>,
             state |-> IF h.save
                       THEN save_state(FALSE, NoFile, st, h.state, TRUE, NoFile, TRUE).local
                       ELSE st,
             raised |-> h.raised] : h \in HandlerResults(name, st)}
      [] name = "cola" ->
           {[sends |-> <<IF st.queue = <<>> THEN "queue_empty_short" ELSE "queue_list">>,
             state |-> st, raised |-> FALSE]}
      [] name = "estado" ->
           {[sends |-> <<"status">>, state |-> st, raised |-> FALSE]}
      [] OTHER ->
           {[sends |-> <<"help">>, state |-> st, raised |-> FALSE]}

\* nothing is called for the update
Dropped(st) ==
    [acks |-> <<>>, handler |-> "none", sends |-> <<>>, state |-> st, raised |-> FALSE]

\* the body of run_listener's loop for one update: the answer_callback texts,
\* the handler called, what was sent, the state file afterwards
run_listener(update, st) ==
    IF update.kind = "callback_query"
    THEN IF ~_is_authorized(update.chat_id)
         THEN {[Dropped(st) EXCEPT !.acks = <<"no_autorizado">>]}
         ELSE CASE update.data = "leido" ->
                     {[acks |-> <<"marcado_como_leido">>, handler |-> "leido",
                       sends |-> h.sends, state |-> h.state, raised |-> h.raised] :
                         h \in _handler("leido", st)}
                [] update.data \in {"cola", "articulo"} ->
                     {[acks |-> <<"">>, handler |-> update.data,
                       sends |-> h.sends, state |-> h.state, raised |-> h.raised] :
                         h \in _handler(update.data, st)}
                [] OTHER ->
                     {[Dropped(st) EXCEPT !.acks = <<"accion_desconocida">>]}
    ELSE IF update.kind # "message"
    THEN {Dropped(st)}
    ELSE IF ~_is_authorized(update.chat_id)
    THEN {Dropped(st)}
    ELSE LET cmd == update.data
             name == CASE cmd \in {"/articulo", "/siguiente"} -> "articulo"
                       [] cmd = "/leido" -> "leido"
                       [] cmd = "/recargar" -> "recargar"
                       [] cmd = "/cola" -> "cola"
                       [] cmd = "/estado" -> "estado"
                       [] cmd \in {"/ayuda", "/start", "/help"} -> "ayuda"
                       [] OTHER -> "none"
         IN  IF name # "none"
             THEN {[acks |-> <<>>, handler |-> name,
                    sends |-> h.sends, state |-> h.state, raised |-> h.raised] :
                      h \in _handler(name, st)}
             ELSE IF StartsWithSlash(cmd)
             THEN {[Dropped(st) EXCEPT !.sends = <<"comando_no_reconocido">>]}
             ELSE {Dropped(st)}

InitDispatch ==
    /\ arg \in {[update |-> u, state |-> st] : u \in Updates, st \in DispatchStates}
    /\ local = arg.state
    /\ res = [pc |-> "start"]
    /\ hasToken = FALSE /\ remote = NoFile
    /\ remoteHist = <<>> /\ localHist = <<>> /\ listener = "running"
    /\ faults = 0 /\ last = NoOp /\ procs = None /\ ghost = None

HandleUpdate ==
    /\ res.pc = "start"
    /\ \E o \in run_listener(arg.update, local) :
         /\ res' = [pc |-> "done", acks |-> o.acks, handler |-> o.handler,
                    sends |-> o.sends]
         /\ local' = o.state
         /\ listener' = (IF o.raised THEN "crashed" ELSE "running")
    /\ UNCHANGED <<hasToken, remote, arg, remoteHist, localHist, faults, last, concVars>>

NextDispatch == HandleUpdate

SpecDispatch == InitDispatch /\ [][NextDispatch]_vars

\* C17 (the claim): an update whose sender is not the configured chat calls
\* no handler, leaves the state file as it was, and has nothing sent for it,
\* neither a message nor an acknowledgement text
C17_UnauthorizedDiscarded ==
    (res.pc = "done" /\ arg.update.chat_id # ALLOWED_CHAT_ID) =>
        /\ res.handler = "none"
        /\ local = arg.state
        /\ res.sends = <<>>
        /\ res.acks = <<>>

====
